---- MODULE Spec2Model ----
(***************************************************************************)
(* tiny-oscope: the signal-history tracker (ReadHistory), the tick counter *)
(* (Ticker) and the two commands analog_read and stats of                  *)
(* src-tauri/src/main.rs.                                                  *)
(*                                                                         *)
(* Numbers.  Samples are f32 in [0, 1]; here a sample is an integer count  *)
(* of thousandths (500 is 0.5) and arithmetic is exact.  `average` is kept *)
(* in units of one thousandth divided by the capacity, so that the two     *)
(* divisions by data.len() of push are exact.  An Instant is an integer    *)
(* reading of the monotonic clock, a Duration the difference of two        *)
(* readings.  A frequency is the pair [num, den] standing for num / den;   *)
(* den = 0 is the IEEE result of 1.0 / 0.0, +infinity.                     *)
(***************************************************************************)
EXTENDS Integers, Sequences, FiniteSets, TLC

\* ------------------------------------------------------------------ bounds
\* HISTORY_SIZE (1000 in the source), scaled down.
Capacity == 3
\* The largest reading of the monotonic clock.
MaxTime == 2
\* The number of threads that run commands concurrently.
NumThreads == 2
\* The push counter is exact up to 3 * Capacity and then cycles through the
\* next Capacity values, so that it stays congruent to the number of pushes.
MaxPushes == 4 * Capacity
\* The counter value up to which analog_read is called where calls are bounded.
MaxReads == 24

\* ----------------------------------------------------------- program constants
MAX_VOLT == 5
\* Ticker(u8): the counter wraps at 2^8.
U8 == 256
\* err_margin = amplitude * 0.05, amplitude = (max - min) / 2.0: in percent.
ERR_PERCENT == 5

\* The values the callers construct the tracker with, and push, in thousandths.
Defaults == {500}
Samples == {100, 500, 895, 900}

\* Option<T>: None, Some(x).
None == <<>>
Some(x) == <<x>>
Unwrap(o) == o[1]

Max(a, b) == IF a >= b THEN a ELSE b
Min(a, b) == IF a <= b THEN a ELSE b

Indices == 0 .. (Capacity - 1)
Threads == 1 .. NumThreads

\* f32 0.0 and 1.0 / w (w = 0 gives +infinity, den = 0).
FZero == [num |-> 0, den |-> 1]
Recip(w) == [num |-> 1, den |-> w]
Infinity == [num |-> 1, den |-> 0]

VARIABLES
    hist,           \* Mutex<ReadHistory>: the tracker
    ticker,         \* Mutex<Ticker>: the u8 counter
    now,            \* the last reading Instant::now() returned
    hist_lock,      \* the holder of the tracker's mutex, 0 when free
    ticker_lock,    \* the holder of the ticker's mutex, 0 when free
    pc,             \* each thread's position in its command
    v,              \* analog_read's local v, per thread
    old,            \* push's local old, per thread
    ret,            \* the f32 each thread's last analog_read returned
    snap,           \* the Stats each thread's stats call has built
    entry,          \* history: ticker and head as each analog_read found them
    default_value,  \* the argument new was called with
    pushes,         \* history: the number of completed pushes (see MaxPushes)
    recent,         \* history: the last pushed values, most recent first
    const_input,    \* history: None, Some(x) while every push pushed x, <<0, 0>> after
    inside_seen,    \* history: some push so far was inside the tolerance band
    lastop,         \* history, tracker alone: the last operation
    stats_out,      \* history, tracker alone: what the last snapshot returned
    committed       \* history: the tracker as the last completed push left it

vars == <<hist, ticker, now, hist_lock, ticker_lock, pc, v, old, ret, snap,
          entry, default_value, pushes, recent, const_input, inside_seen,
          lastop, stats_out, committed>>

\* --------------------------------------------------------------- ReadHistory
\* ReadHistory::new
new(d) ==
    [head |-> 0,
     data |-> [i \in Indices |-> d],
     average |-> Capacity * d,
     max |-> d,
     min |-> d,
     peaked_at |-> None,
     frequency |-> FZero,
     wavelength |-> None]

\* A write that lands one slot past the head.
PushWriteOffByOne(h, n) == [h EXCEPT !.data[(h.head + 1) % Capacity] = n]

\* push, line 69: self.data[self.head] = n
PushWrite(h, n) == [h EXCEPT !.data[h.head] = n]

\* A push that adds the new sample's share without removing the evicted one's.
PushAverageNoEvict(h, o, n) == [h EXCEPT !.average = h.average + n]

\* push, lines 70-71: average -= old / len; average += n / len
PushAverage(h, o, n) == [h EXCEPT !.average = (h.average - o) + n]

\* A head that is advanced without wrapping at the capacity's last slot.
PushHeadStuck(h) == [h EXCEPT !.head = Min(h.head + 1, Capacity - 1)]

\* push, line 72: head = (head + 1).rem(len)
PushHead(h) == [h EXCEPT !.head = (h.head + 1) % Capacity]

\* Watermarks recomputed over the window instead of kept for the lifetime.
PushWatermarksWindowed(h, n) ==
    [h EXCEPT !.max = CHOOSE x \in {h.data[i] : i \in Indices} :
                          \A i \in Indices : h.data[i] <= x,
              !.min = CHOOSE x \in {h.data[i] : i \in Indices} :
                          \A i \in Indices : h.data[i] >= x]

\* Watermarks with max and min exchanged.
PushWatermarksSwapped(h, n) ==
    [h EXCEPT !.max = Min(h.max, n), !.min = Max(h.min, n)]

\* push, lines 79-80: max = max.max(n); min = min.min(n)
PushWatermarks(h, n) ==
    [h EXCEPT !.max = Max(h.max, n), !.min = Min(h.min, n)]

\* push, lines 83-86: max - n > err_margin, with
\* err_margin = (max - min) / 2.0 * 0.05, both sides multiplied by 200.
OutsidePeak(h, n) == 200 * (h.max - n) > ERR_PERCENT * (h.max - h.min)

\* Whether the peak step of push reads the clock (lines 90 and 94).
ReadsClock(h, n) ==
    IF OutsidePeak(h, n) THEN h.peaked_at = None ELSE h.peaked_at # None

\* A peak step that completes a wave on every inside sample, stored
\* timestamp or not.
PushPeakUnguarded(h, n, t) ==
    IF OutsidePeak(h, n)
    THEN IF h.peaked_at = None THEN [h EXCEPT !.peaked_at = Some(t)] ELSE h
    ELSE LET since == IF h.peaked_at = None THEN t ELSE Unwrap(h.peaked_at)
         IN [h EXCEPT !.wavelength = Some(t - since),
                      !.frequency = Recip(t - since),
                      !.peaked_at = None]

\* A peak step that stores the wavelength and leaves the frequency alone.
PushPeakNoFrequency(h, n, t) ==
    IF OutsidePeak(h, n)
    THEN IF h.peaked_at = None THEN [h EXCEPT !.peaked_at = Some(t)] ELSE h
    ELSE IF h.peaked_at # None
         THEN [h EXCEPT !.wavelength = Some(t - Unwrap(h.peaked_at)),
                        !.peaked_at = None]
         ELSE h

\* A peak step that stores the time of every outside sample, not only of
\* the first one of a run.
PushPeakRestamps(h, n, t) ==
    IF OutsidePeak(h, n)
    THEN [h EXCEPT !.peaked_at = Some(t)]
    ELSE IF h.peaked_at # None
         THEN [h EXCEPT !.wavelength = Some(t - Unwrap(h.peaked_at)),
                        !.frequency = Recip(t - Unwrap(h.peaked_at)),
                        !.peaked_at = None]
         ELSE h

\* A peak step that leaves the timestamp stored when the wave completes.
PushPeakKeepsStamp(h, n, t) ==
    IF OutsidePeak(h, n)
    THEN IF h.peaked_at = None THEN [h EXCEPT !.peaked_at = Some(t)] ELSE h
    ELSE IF h.peaked_at # None
         THEN [h EXCEPT !.wavelength = Some(t - Unwrap(h.peaked_at)),
                        !.frequency = Recip(t - Unwrap(h.peaked_at))]
         ELSE h

\* push, lines 86-98; t is the reading of Instant::now().
PushPeak(h, n, t) ==
    IF OutsidePeak(h, n)
    THEN IF h.peaked_at = None THEN [h EXCEPT !.peaked_at = Some(t)] ELSE h
    ELSE IF h.peaked_at # None
         THEN [h EXCEPT !.wavelength = Some(t - Unwrap(h.peaked_at)),
                        !.frequency = Recip(t - Unwrap(h.peaked_at)),
                        !.peaked_at = None]
         ELSE h

\* ReadHistory::push as a whole.
push(h, n, t) ==
    PushPeak(PushWatermarks(PushHead(PushAverage(PushWrite(h, n),
                                                 h.data[h.head], n)), n), n, t)

\* ReadHistory::amplitude, in units of a two-thousandth of a volt:
\* (max - min) / 2.0 * MAX_VOLT.
amplitude(h) == (h.max - h.min) * MAX_VOLT

\* ReadHistory::frequency
frequency(h) == h.frequency

\* ReadHistory::wavelength: map(as_secs_f32).unwrap_or(0.0)
wavelength(h) == IF h.wavelength = None THEN 0 ELSE Unwrap(h.wavelength)

\* A Stats that consumes the wavelength it reports.
StatsTaking(h) == [h EXCEPT !.wavelength = None]

\* What building Stats leaves of the tracker: hist is borrowed immutably.
StatsLeaves(h) == h

\* The Stats struct of lines 140-144.
Stats(h) ==
    [amplitude |-> amplitude(h),
     frequency |-> frequency(h),
     wavelength |-> wavelength(h)]

\* ------------------------------------------------------------------ history
Mixed == <<0, 0>>

NextPushes(p) == IF p < MaxPushes THEN p + 1 ELSE p + 1 - Capacity

NextRecent(r, n) == SubSeq(<<n>> \o r, 1, Min(Len(r) + 1, Capacity))

NextConst(c, n) ==
    IF c = None THEN Some(n) ELSE IF c = Some(n) THEN c ELSE Mixed

NoStats == [amplitude |-> 0, frequency |-> FZero, wavelength |-> 0]

\* ----------------------------------------------------------- the tracker alone
\* main, lines 17-18, with every thread idle.
Init ==
    /\ default_value \in Defaults
    /\ hist = new(default_value)
    /\ ticker = 0
    /\ now = 0
    /\ hist_lock = 0
    /\ ticker_lock = 0
    /\ pc = [t \in Threads |-> "idle"]
    /\ v = [t \in Threads |-> 0]
    /\ old = [t \in Threads |-> 0]
    /\ ret = [t \in Threads |-> 0]
    /\ snap = [t \in Threads |-> NoStats]
    /\ entry = [t \in Threads |-> None]
    /\ pushes = 0
    /\ recent = <<>>
    /\ const_input = None
    /\ inside_seen = FALSE
    /\ lastop = "new"
    /\ stats_out = NoStats
    /\ committed = hist

threadVars == <<ticker, hist_lock, ticker_lock, pc, v, old, ret, snap, entry>>

\* One call of ReadHistory::push with sample n; the clock, when push reads
\* it, returns any instant not before the last one returned.
Push(n) ==
    \E t \in now .. MaxTime :
        LET h1 == PushWatermarks(PushHead(PushAverage(PushWrite(hist, n),
                                          hist.data[hist.head], n)), n)
        IN /\ hist' = push(hist, n, t)
           /\ now' = IF ReadsClock(h1, n) THEN t ELSE now
           /\ pushes' = NextPushes(pushes)
           /\ recent' = NextRecent(recent, n)
           /\ const_input' = NextConst(const_input, n)
           /\ inside_seen' = (inside_seen \/ ~OutsidePeak(h1, n))
           /\ lastop' = "push"
           /\ committed' = hist'
           /\ UNCHANGED <<threadVars, default_value, stats_out>>

\* One snapshot: the body of stats, lines 140-144.
Snapshot ==
    /\ stats_out' = Stats(hist)
    /\ hist' = StatsLeaves(hist)
    /\ lastop' = "stats"
    /\ UNCHANGED <<threadVars, now, default_value, pushes, recent,
                   const_input, inside_seen, committed>>

Next ==
    \/ \E n \in Samples : Push(n)
    \/ Snapshot

Spec == Init /\ [][Next]_vars

\* ------------------------------------------------------------ the commands
\* analog_read, lines 122-123: lerp(0.2..=0.8, (sin(ticker / 7.0) + 1.0) / 2.0)
\* in thousandths, for each value of the u8 counter.
SampleTable ==
    <<
      500, 543, 585, 625, 662, 697, 727, 752, 773, 788, 797, 800, 797, 788, 773, 752,
      727, 696, 662, 624, 584, 542, 500, 457, 415, 375, 337, 303, 273, 247, 227, 212,
      203, 200, 203, 212, 227, 248, 274, 304, 338, 376, 416, 458, 501, 543, 585, 625,
      663, 697, 727, 753, 773, 788, 797, 800, 797, 788, 772, 752, 726, 696, 661, 624,
      583, 542, 499, 456, 414, 374, 337, 303, 272, 247, 227, 212, 203, 200, 203, 213,
      228, 248, 274, 305, 339, 377, 417, 459, 502, 544, 586, 626, 664, 698, 728, 753,
      774, 788, 797, 800, 797, 787, 772, 751, 726, 695, 661, 623, 583, 541, 498, 455,
      414, 374, 336, 302, 272, 247, 226, 212, 203, 200, 203, 213, 228, 249, 275, 305,
      340, 377, 418, 460, 502, 545, 587, 627, 664, 698, 728, 754, 774, 789, 797, 800,
      797, 787, 772, 751, 725, 695, 660, 622, 582, 540, 497, 455, 413, 373, 336, 301,
      271, 246, 226, 211, 203, 200, 203, 213, 228, 249, 275, 306, 340, 378, 418, 460,
      503, 546, 587, 627, 665, 699, 729, 754, 774, 789, 797, 800, 796, 787, 772, 751,
      725, 694, 659, 622, 581, 539, 497, 454, 412, 372, 335, 301, 271, 246, 226, 211,
      203, 200, 204, 213, 229, 250, 276, 306, 341, 379, 419, 461, 504, 546, 588, 628,
      665, 699, 729, 754, 774, 789, 797, 800, 796, 787, 771, 750, 724, 693, 659, 621,
      581, 539, 496, 453, 411, 372, 334, 300, 270, 245, 225, 211, 202, 200, 204, 213
    >>

Sample(k) == SampleTable[k + 1]

\* A tick that saturates at the largest u8 instead of wrapping.
tickSaturating(k) == Min(k + 1, U8 - 1)

\* Ticker::tick: wrapping_add(1) on a u8.
tick(k) == (k + 1) % U8

\* A thread starts analog_read.
ArCall(t) ==
    /\ pc[t] = "idle"
    /\ pc' = [pc EXCEPT ![t] = "ar_lock_hist"]
    /\ UNCHANGED <<entry, inside_seen, hist, ticker, now, hist_lock,
                   ticker_lock, v, old, ret, snap, default_value, pushes,
                   recent, const_input, lastop, stats_out, committed>>

\* analog_read, line 119: hist.lock()
ArLockHist(t) ==
    /\ pc[t] = "ar_lock_hist"
    /\ hist_lock = 0
    /\ hist_lock' = t
    /\ pc' = [pc EXCEPT ![t] = "ar_lock_ticker"]
    /\ UNCHANGED <<entry, inside_seen, hist, ticker, now, ticker_lock, v,
                   old, ret, snap, default_value, pushes, recent,
                   const_input, lastop, stats_out, committed>>

\* analog_read, line 120: ticker.lock()
ArLockTicker(t) ==
    /\ pc[t] = "ar_lock_ticker"
    /\ ticker_lock = 0
    /\ ticker_lock' = t
    /\ entry' = [entry EXCEPT ![t] = Some([ticker |-> ticker, head |-> hist.head])]
    /\ pc' = [pc EXCEPT ![t] = "ar_tick"]
    /\ UNCHANGED <<inside_seen, hist, ticker, now, hist_lock, v, old, ret,
                   snap, default_value, pushes, recent, const_input, lastop,
                   stats_out, committed>>

\* An analog_read whose guards live only as long as the tick and the sample:
\* the push that follows runs with both mutexes released.
ArTickUnlocks(t) ==
    /\ pc[t] = "ar_tick"
    /\ ticker' = tick(ticker)
    /\ v' = [v EXCEPT ![t] = Sample(ticker')]
    /\ hist_lock' = 0
    /\ ticker_lock' = 0
    /\ pc' = [pc EXCEPT ![t] = "push_write"]
    /\ UNCHANGED <<entry, inside_seen, hist, now, old, ret, snap,
                   default_value, pushes, recent, const_input, lastop,
                   stats_out, committed>>

\* analog_read, lines 121-123: ticker.tick(), then v from ticker.value()
ArTick(t) ==
    /\ pc[t] = "ar_tick"
    /\ ticker' = tick(ticker)
    /\ v' = [v EXCEPT ![t] = Sample(ticker')]
    /\ pc' = [pc EXCEPT ![t] = "push_write"]
    /\ UNCHANGED <<entry, inside_seen, hist, now, hist_lock, ticker_lock,
                   old, ret, snap, default_value, pushes, recent,
                   const_input, lastop, stats_out, committed>>

\* push, lines 68-69
PushWriteStep(t) ==
    /\ pc[t] = "push_write"
    /\ old' = [old EXCEPT ![t] = hist.data[hist.head]]
    /\ hist' = PushWrite(hist, v[t])
    /\ pc' = [pc EXCEPT ![t] = "push_average"]
    /\ UNCHANGED <<entry, inside_seen, ticker, now, hist_lock, ticker_lock,
                   v, ret, snap, default_value, pushes, recent, const_input,
                   lastop, stats_out, committed>>

\* push, lines 70-71
PushAverageStep(t) ==
    /\ pc[t] = "push_average"
    /\ hist' = PushAverage(hist, old[t], v[t])
    /\ pc' = [pc EXCEPT ![t] = "push_head"]
    /\ UNCHANGED <<entry, inside_seen, ticker, now, hist_lock, ticker_lock,
                   v, old, ret, snap, default_value, pushes, recent,
                   const_input, lastop, stats_out, committed>>

\* push, line 72
PushHeadStep(t) ==
    /\ pc[t] = "push_head"
    /\ hist' = PushHead(hist)
    /\ pc' = [pc EXCEPT ![t] = "push_watermarks"]
    /\ UNCHANGED <<entry, inside_seen, ticker, now, hist_lock, ticker_lock,
                   v, old, ret, snap, default_value, pushes, recent,
                   const_input, lastop, stats_out, committed>>

\* push, lines 79-80
PushWatermarksStep(t) ==
    /\ pc[t] = "push_watermarks"
    /\ hist' = PushWatermarks(hist, v[t])
    /\ pc' = [pc EXCEPT ![t] = "push_peak"]
    /\ UNCHANGED <<entry, inside_seen, ticker, now, hist_lock, ticker_lock,
                   v, old, ret, snap, default_value, pushes, recent,
                   const_input, lastop, stats_out, committed>>

\* push, lines 83-98; the push is complete when this step is taken.
PushPeakStep(t) ==
    /\ pc[t] = "push_peak"
    /\ \E i \in now .. MaxTime :
          /\ hist' = PushPeak(hist, v[t], i)
          /\ now' = IF ReadsClock(hist, v[t]) THEN i ELSE now
    /\ pushes' = NextPushes(pushes)
    /\ recent' = NextRecent(recent, v[t])
    /\ const_input' = NextConst(const_input, v[t])
    /\ inside_seen' = (inside_seen \/ ~OutsidePeak(hist, v[t]))
    /\ committed' = hist'
    /\ pc' = [pc EXCEPT ![t] = "ar_return"]
    /\ UNCHANGED <<entry, ticker, hist_lock, ticker_lock, v, old, ret, snap,
                   default_value, lastop, stats_out>>

\* An analog_read that returns the sample its push evicted.
ArReturnEvicted(t) ==
    /\ pc[t] = "ar_return"
    /\ ret' = [ret EXCEPT ![t] = old[t]]
    /\ pc' = [pc EXCEPT ![t] = "ar_drop"]
    /\ UNCHANGED <<entry, inside_seen, hist, ticker, now, hist_lock,
                   ticker_lock, v, old, snap, default_value, pushes, recent,
                   const_input, lastop, stats_out, committed>>

\* analog_read, line 127: the value to return is v.
ArReturn(t) ==
    /\ pc[t] = "ar_return"
    /\ ret' = [ret EXCEPT ![t] = v[t]]
    /\ pc' = [pc EXCEPT ![t] = "ar_drop"]
    /\ UNCHANGED <<entry, inside_seen, hist, ticker, now, hist_lock,
                   ticker_lock, v, old, snap, default_value, pushes, recent,
                   const_input, lastop, stats_out, committed>>

\* An analog_read that returns with the ticker's guard still alive.
ArDropKeepsTicker(t) ==
    /\ pc[t] = "ar_drop"
    /\ hist_lock' = 0
    /\ v' = [v EXCEPT ![t] = 0]
    /\ old' = [old EXCEPT ![t] = 0]
    /\ ret' = [ret EXCEPT ![t] = 0]
    /\ entry' = [entry EXCEPT ![t] = None]
    /\ pc' = [pc EXCEPT ![t] = "idle"]
    /\ UNCHANGED <<inside_seen, hist, ticker, now, ticker_lock, snap,
                   default_value, pushes, recent, const_input, lastop,
                   stats_out, committed>>

\* analog_read, line 128: both guards are dropped and the call returns.
ArDrop(t) ==
    /\ pc[t] = "ar_drop"
    /\ ticker_lock' = 0
    /\ hist_lock' = 0
    /\ v' = [v EXCEPT ![t] = 0]
    /\ old' = [old EXCEPT ![t] = 0]
    /\ ret' = [ret EXCEPT ![t] = 0]
    /\ entry' = [entry EXCEPT ![t] = None]
    /\ pc' = [pc EXCEPT ![t] = "idle"]
    /\ UNCHANGED <<inside_seen, hist, ticker, now, snap, default_value,
                   pushes, recent, const_input, lastop, stats_out, committed>>

\* A thread starts stats.
StCall(t) ==
    /\ pc[t] = "idle"
    /\ pc' = [pc EXCEPT ![t] = "st_lock"]
    /\ UNCHANGED <<entry, inside_seen, hist, ticker, now, hist_lock,
                   ticker_lock, v, old, ret, snap, default_value, pushes,
                   recent, const_input, lastop, stats_out, committed>>

\* A stats that goes on to read without waiting for the mutex.
StLockUnguarded(t) ==
    /\ pc[t] = "st_lock"
    /\ pc' = [pc EXCEPT ![t] = "st_read"]
    /\ UNCHANGED <<entry, inside_seen, hist, ticker, now, hist_lock,
                   ticker_lock, v, old, ret, snap, default_value, pushes,
                   recent, const_input, lastop, stats_out, committed>>

\* stats, line 139: hist.lock()
StLock(t) ==
    /\ pc[t] = "st_lock"
    /\ hist_lock = 0
    /\ hist_lock' = t
    /\ pc' = [pc EXCEPT ![t] = "st_read"]
    /\ UNCHANGED <<entry, inside_seen, hist, ticker, now, ticker_lock, v,
                   old, ret, snap, default_value, pushes, recent,
                   const_input, lastop, stats_out, committed>>

\* stats, lines 140-144: the Stats to return is built.
StRead(t) ==
    /\ pc[t] = "st_read"
    /\ snap' = [snap EXCEPT ![t] = Stats(hist)]
    /\ hist' = StatsLeaves(hist)
    /\ pc' = [pc EXCEPT ![t] = "st_return"]
    /\ UNCHANGED <<entry, inside_seen, ticker, now, hist_lock, ticker_lock,
                   v, old, ret, default_value, pushes, recent, const_input,
                   lastop, stats_out, committed>>

\* stats, line 145: the guard is dropped and the call returns.
StReturn(t) ==
    /\ pc[t] = "st_return"
    /\ hist_lock' = 0
    /\ snap' = [snap EXCEPT ![t] = NoStats]
    /\ pc' = [pc EXCEPT ![t] = "idle"]
    /\ UNCHANGED <<entry, inside_seen, hist, ticker, now, ticker_lock, v,
                   old, ret, default_value, pushes, recent, const_input,
                   lastop, stats_out, committed>>

NextApp ==
    \E t \in Threads :
        \/ ArCall(t)
        \/ ArLockHist(t)
        \/ ArLockTicker(t)
        \/ ArTick(t)
        \/ PushWriteStep(t)
        \/ PushAverageStep(t)
        \/ PushHeadStep(t)
        \/ PushWatermarksStep(t)
        \/ PushPeakStep(t)
        \/ ArReturn(t)
        \/ ArDrop(t)
        \/ StCall(t)
        \/ StLock(t)
        \/ StRead(t)
        \/ StReturn(t)

\* The application: the threads run analog_read and stats concurrently.
SpecApp == Init /\ [][NextApp]_vars

\* The steps of a call that wait for nothing once the call has its locks.
Run(t) ==
    \/ ArLockTicker(t)
    \/ ArTick(t)
    \/ PushWriteStep(t)
    \/ PushAverageStep(t)
    \/ PushHeadStep(t)
    \/ PushWatermarksStep(t)
    \/ PushPeakStep(t)
    \/ ArReturn(t)
    \/ ArDrop(t)
    \/ StRead(t)
    \/ StReturn(t)

\* The application with analog_read called only while the counter is below
\* MaxReads; stats is called without limit.
NextAppBounded ==
    \E t \in Threads :
        \/ ticker < MaxReads /\ ArCall(t)
        \/ ArLockHist(t)
        \/ StCall(t)
        \/ StLock(t)
        \/ Run(t)

\* That application under fair scheduling: a thread that can run does run,
\* and a thread waiting for the tracker's mutex, which is released again and
\* again, is not passed over for ever.
SpecAppFair ==
    /\ Init
    /\ [][NextAppBounded]_vars
    /\ \A t \in Threads :
          /\ WF_vars(Run(t))
          /\ SF_vars(ArLockHist(t))
          /\ SF_vars(StLock(t))

\* ------------------------------------------------------------------ claims
RECURSIVE SumData(_, _)
\* The sum of the first k slots of the buffer of h.
SumData(h, k) == IF k = 0 THEN 0 ELSE h.data[k - 1] + SumData(h, k - 1)

\* The slot that holds the k-th most recently pushed value.
Slot(h, k) == (h.head + Capacity * k - k) % Capacity

BufferValues(h) == {h.data[i] : i \in Indices}

\* C1: after any sequence of pushes, fewer than the capacity included, the
\* average times the capacity is the sum of the buffer's slots: the
\* incremental update of push agrees with a full recomputation.
AverageIsMean == hist.average = SumData(hist, Capacity)

\* C1's case: more pushes than the capacity, so that pushed values, not only
\* the default, have been evicted, and an average that has moved.
AverageAfterEviction ==
    /\ pushes > Capacity
    /\ recent[Capacity] # default_value
    /\ hist.average # Capacity * default_value

\* C2: once at least capacity values have been pushed, the k-th most recently
\* pushed value is in slot (head - k) mod capacity for every k in 1..capacity,
\* so that the buffer holds the last capacity pushed values and nothing else.
RingHoldsLastPushes ==
    pushes >= Capacity =>
        \A k \in 1 .. Capacity : hist.data[Slot(hist, k)] = recent[k]

\* C2's case: the buffer has wrapped, the last capacity pushes differ from one
\* another where they can, and no slot holds the default any more.
RingWrapped ==
    /\ pushes > Capacity
    /\ recent[1] # recent[2]
    /\ recent[2] # recent[Capacity]
    /\ default_value \notin BufferValues(hist)

\* C3: every push leaves max at least what it was and min at most what it
\* was, also when the sample that set the watermark leaves the ring.
WatermarksMonotone ==
    [][hist'.max >= hist.max /\ hist'.min <= hist.min]_vars

\* C3's case: the samples that set max and min have both been evicted.
ExtremesEvicted ==
    /\ pushes > Capacity
    /\ \A i \in Indices : hist.min < hist.data[i] /\ hist.data[i] < hist.max

\* C4: min <= max in every state, and the amplitude a snapshot returns is
\* (max - min) / 2 * MAX_VOLT of the current max and min and is not negative.
MinAtMostMax ==
    /\ hist.min <= hist.max
    /\ Stats(hist).amplitude = (hist.max - hist.min) * MAX_VOLT
    /\ Stats(hist).amplitude >= 0
    /\ lastop = "stats" =>
          /\ stats_out.amplitude = (hist.max - hist.min) * MAX_VOLT
          /\ stats_out.amplitude >= 0

\* C4's case: a snapshot taken after pushes that moved both watermarks.
AmplitudeReported ==
    /\ lastop = "stats"
    /\ hist.min < default_value
    /\ default_value < hist.max
    /\ stats_out.amplitude = (hist.max - hist.min) * MAX_VOLT

\* C5: while every push so far has pushed one and the same value, whatever
\* its order to the default, wavelength is None and frequency is 0.
NoCycleOnConstantInput ==
    const_input # Mixed =>
        hist.wavelength = None /\ hist.frequency = FZero

\* C5's case: capacity * 3 pushes of one value below the default, each of
\* them outside the peak, with the time of the first one stored.
ConstantInputThrice ==
    /\ pushes = 3 * Capacity
    /\ const_input # Mixed
    /\ const_input # None
    /\ Unwrap(const_input) < default_value
    /\ hist.peaked_at # None

\* C6: a snapshot changes no field of the tracker, and a snapshot that
\* follows a snapshot returns what that one returned.
SnapshotReadOnly ==
    [][lastop' = "stats" =>
          /\ hist' = hist
          /\ lastop = "stats" => stats_out' = stats_out]_vars

\* C6's case: a snapshot taken while a wavelength is stored and a new
\* measurement is under way.
SnapshotOfMeasuringTracker ==
    /\ lastop = "stats"
    /\ hist.wavelength # None
    /\ hist.peaked_at # None
    /\ stats_out = Stats(hist)

\* C7: from new(0.5), after 0.9 and 0.5 max is 0.9 and min is 0.5, wavelength
\* is None until the second 0.9, and the push of the second 0.9 sets
\* wavelength to Some(d) with d > 0.
ScenarioWavelengthPositive ==
    default_value = 500 =>
        /\ (pushes = 1 /\ recent = <<900>>) => hist.wavelength = None
        /\ (pushes = 2 /\ recent = <<500, 900>>) =>
              hist.max = 900 /\ hist.min = 500 /\ hist.wavelength = None
        /\ (pushes = 3 /\ recent = <<900, 500, 900>>) =>
              hist.wavelength # None /\ Unwrap(hist.wavelength) > 0

\* What a snapshot returns: 0 and 0 while wavelength is None, and otherwise
\* the stored wavelength w with the frequency 1 / w.
SnapshotPairsFrequency ==
    /\ hist.wavelength = None =>
          Stats(hist).frequency = FZero /\ Stats(hist).wavelength = 0
    /\ hist.wavelength # None =>
          /\ Stats(hist).wavelength = Unwrap(hist.wavelength)
          /\ Stats(hist).frequency = Recip(Unwrap(hist.wavelength))
    /\ lastop = "stats" => stats_out = Stats(hist)

\* A step changes frequency or wavelength only by completing a measurement:
\* a timestamp was stored, it is cleared, and both fields are set from it.
ChangedTogether ==
    (hist'.wavelength # hist.wavelength \/ hist'.frequency # hist.frequency) =>
        /\ hist.peaked_at # None
        /\ hist'.peaked_at = None
        /\ hist'.wavelength = Some(now' - Unwrap(hist.peaked_at))
        /\ hist'.frequency = Recip(now' - Unwrap(hist.peaked_at))

\* C8: a snapshot returns frequency 0 and wavelength 0 while wavelength is
\* None, and otherwise the last computed wavelength with frequency = 1 / that
\* wavelength; the two fields are only set together, by a push that computes
\* a wavelength, and keep their values over every other push.
FrequencyIsReciprocal == []SnapshotPairsFrequency /\ [][ChangedTogether]_vars

\* C8's case: a snapshot that reports a wavelength of one clock unit.
SnapshotWithWavelength ==
    /\ lastop = "stats"
    /\ hist.wavelength = Some(1)
    /\ stats_out.wavelength = 1
    /\ stats_out.frequency = Recip(1)

\* C9: push never divides by a zero wavelength: no wavelength of zero is
\* stored and the frequency is never infinite.
NoZeroWavelength ==
    /\ hist.wavelength # Some(0)
    /\ hist.frequency # Infinity

\* The threads that are inside the tracker's critical section.
InHist(t) ==
    pc[t] \in {"ar_lock_ticker", "ar_tick", "push_write", "push_average",
               "push_head", "push_watermarks", "push_peak", "ar_return",
               "ar_drop", "st_read", "st_return"}

\* C10: at most one call is inside the tracker at a time, and a stats call
\* reads, and returns the Stats of, the tracker as the last completed push
\* left it, never one that a push has partly updated.
SnapshotsAreWhole ==
    /\ \A t1, t2 \in Threads : (InHist(t1) /\ InHist(t2)) => t1 = t2
    /\ \A t \in Threads :
          /\ pc[t] = "st_read" => hist = committed
          /\ pc[t] = "st_return" => snap[t] = Stats(committed)

\* C10's case: a stats call waits for the tracker while a push has updated
\* the watermarks and not yet the peak state, the Stats of the two differing.
StatsWaitsForPush ==
    \E t1, t2 \in Threads :
        /\ pc[t1] = "st_lock"
        /\ pc[t2] = "push_peak"
        /\ Stats(hist) # Stats(committed)

\* C11: when an analog_read call completes, the counter is one wrapping step
\* past the value the call found, head is one slot past the head it found,
\* modulo the capacity, and the value returned is the value pushed, the one
\* in slot (head - 1) mod capacity.
AnalogReadPushesWhatItReturns ==
    \A t \in Threads :
        pc[t] = "ar_drop" =>
            /\ ticker = (Unwrap(entry[t]).ticker + 1) % U8
            /\ hist.head = (Unwrap(entry[t]).head + 1) % Capacity
            /\ ret[t] = recent[1]
            /\ ret[t] = hist.data[Slot(hist, 1)]

\* C11's case: a call about to return after the ring has wrapped, with a
\* value that differs from the one its push evicted.
AnalogReadReturning ==
    \E t \in Threads :
        /\ pc[t] = "ar_drop"
        /\ pushes > Capacity
        /\ ret[t] # old[t]
        /\ hist.head = 0

\* C12: the detector starts outside a peak, so outside-band pushes from the
\* initial state store no timestamp, and a wavelength is only ever set after
\* an inside-band push, then an outside-band push, then an inside-band push.
MeasurementStartsAtAPeak ==
    /\ (pushes > 0 /\ ~inside_seen) => hist.peaked_at = None
    /\ hist.wavelength # None => pushes >= 3

\* A call that waits for a mutex another call holds.
Blocked(t) ==
    \/ pc[t] \in {"ar_lock_hist", "st_lock"} /\ hist_lock # 0
    \/ pc[t] = "ar_lock_ticker" /\ ticker_lock # 0

\* No call that holds a mutex waits for another one, and a mutex is held
\* only by a call in progress.
LockHoldersRun ==
    \A t \in Threads :
        (hist_lock = t \/ ticker_lock = t) => (pc[t] # "idle" /\ ~Blocked(t))

TickerNeverDecreases == [][ticker' >= ticker]_vars

\* The counter moves only in the tick of an analog_read, by one, from the
\* largest u8 to 0, and the call's sample is read from the new value.
TickStep ==
    /\ (\A t \in Threads : pc[t] # "ar_tick") => ticker' = ticker
    /\ \A t \in Threads :
          (pc[t] = "ar_tick" /\ pc'[t] # "ar_tick") =>
              /\ ticker' = ticker + 1 \/ (ticker = U8 - 1 /\ ticker' = 0)
              /\ v'[t] = Sample(ticker')

\* C14, amended: the value a call reads is the value the call before it read
\* plus one, and 0 after 255: the counter is monotonic between two wraps.
TickerCountsModulo == [][TickStep]_vars

\* C14's case: a call has ticked the counter from 255 to 0 and read 0.
TickerWrapped ==
    \E t \in Threads :
        /\ pc[t] = "push_write"
        /\ ticker = 0
        /\ Unwrap(entry[t]).ticker = U8 - 1

\* The buffer has capacity slots, head is one of them and is the number of
\* pushes modulo the capacity, and once the ring is full the slot at head
\* holds the oldest of the values in it.
HeadCountsPushes ==
    /\ DOMAIN hist.data = Indices
    /\ hist.head \in Indices
    /\ hist.head = pushes % Capacity
    /\ pushes >= Capacity => hist.data[hist.head] = recent[Capacity]

\* A push writes its value into the slot at the head it found, leaves every
\* other slot alone and moves head one slot on, modulo the capacity; no other
\* step touches buffer or head.
PushWritesOneSlot ==
    /\ pushes' # pushes =>
          /\ \A i \in Indices :
                hist'.data[i] = IF i = hist.head THEN recent'[1] ELSE hist.data[i]
          /\ hist'.head = (hist.head + 1) % Capacity
    /\ pushes' = pushes =>
          hist'.data = hist.data /\ hist'.head = hist.head

\* C15: every push writes exactly one slot, the one at the pre-push head,
\* which holds the oldest entry, leaves the other capacity - 1 slots
\* unchanged and sets head to (head + 1) mod capacity; in every state
\* 0 <= head < capacity, head is the number of pushes modulo the capacity and
\* the buffer holds exactly capacity values.
PushOverwritesOldest == []HeadCountsPushes /\ [][PushWritesOneSlot]_vars

\* C15's case: the push after the ring filled has overwritten slot 0, the
\* oldest, with a value that differs from the one next to it.
OldestOverwritten ==
    /\ pushes = Capacity + 1
    /\ hist.head = 1
    /\ hist.data[0] = recent[1]
    /\ hist.data[0] # hist.data[1]

\* The positions of analog_read from its tick to its return.
Ticked(t) ==
    pc[t] \in {"push_write", "push_average", "push_head", "push_watermarks",
               "push_peak", "ar_return", "ar_drop"}

\* The positions at which a call has ticked and its push is not complete.
Pushing(t) ==
    pc[t] \in {"push_write", "push_average", "push_head", "push_watermarks",
               "push_peak"}

\* The sample of the counter reading j readings before the current one.
SampleBack(j) == Sample((ticker + U8 - j) % U8)

\* C16: the tick, the sample and the push of an analog_read happen with both
\* mutexes held, each call's sample comes from the counter reading its own
\* tick produced, and the samples are pushed in the order of the readings:
\* the values in the tracker are those of consecutive readings, the latest
\* reading last.
SamplesPushedInTickOrder ==
    /\ \A t \in Threads :
          (pc[t] = "ar_tick" \/ Ticked(t)) =>
              hist_lock = t /\ ticker_lock = t
    /\ \A t \in Threads :
          Ticked(t) =>
              /\ v[t] = Sample(ticker)
              /\ ticker = (Unwrap(entry[t]).ticker + 1) % U8
    /\ \A t \in Threads :
          Pushing(t) =>
              \A k \in 1 .. Len(recent) : recent[k] = SampleBack(k)
    /\ (\A t \in Threads : ~Pushing(t)) =>
          \A k \in 1 .. Len(recent) : recent[k] = SampleBack(k - 1)

\* C16's case: a second analog_read has been called and waits while the
\* first one, past its tick, is in the middle of its push.
SecondReadWaitsForPush ==
    \E t1, t2 \in Threads :
        /\ pc[t1] = "push_head"
        /\ pc[t2] = "ar_lock_hist"
        /\ pushes >= Capacity

\* What a push does to the stored timestamp: it is stored by an outside-band
\* push, at the time of that push; while it is stored, an outside-band push
\* leaves it and the wavelength as they are, and an inside-band push sets the
\* wavelength to its own time minus the stored one and clears the timestamp.
StampStep ==
    pushes' # pushes =>
        /\ (hist.peaked_at = None /\ hist'.peaked_at # None) =>
              /\ OutsidePeak(hist', recent'[1])
              /\ hist'.peaked_at = Some(now')
        /\ hist.peaked_at # None =>
              IF OutsidePeak(hist', recent'[1])
              THEN /\ hist'.peaked_at = hist.peaked_at
                   /\ hist'.wavelength = hist.wavelength
              ELSE /\ hist'.wavelength = Some(now' - Unwrap(hist.peaked_at))
                   /\ hist'.peaked_at = None

\* C17: a stored timestamp survives further outside-band pushes unchanged,
\* so that the wavelength the next inside-band push sets is the time of that
\* push minus the time of the first outside-band push of the run, and that
\* inside-band push clears the timestamp.
WavelengthFromFirstOutsidePush == [][StampStep]_vars

\* C17's case: two outside-band pushes and then an inside-band push, which
\* has set a wavelength of more than zero and cleared the timestamp.
RunOfOutsidePushesMeasured ==
    /\ pushes = 3
    /\ recent = <<900, 100, 100>>
    /\ hist.wavelength = Some(now)
    /\ now > 0
    /\ hist.peaked_at = None

\* C18: before any push no timestamp is stored, and after every push one is
\* stored exactly if the sample just pushed is outside the tolerance band,
\* max - value > 0.05 * (max - min) / 2, for max and min as that push left
\* them.
StampedIffOutside ==
    /\ pushes = 0 => hist.peaked_at = None
    /\ pushes > 0 =>
          (hist.peaked_at # None <=>
              200 * (hist.max - recent[1]) > ERR_PERCENT * (hist.max - hist.min))

\* C18's case: a sample below the maximum and inside the band has completed
\* a measurement and left no timestamp stored.
InsideBelowMaxClearsStamp ==
    /\ pushes > 0
    /\ recent[1] = 895
    /\ hist.max = 900
    /\ hist.wavelength # None
    /\ hist.peaked_at = None

====
